---- MODULE Spec2Model ----
(***************************************************************************)
(* Model of src/task_3.py: insertion sort, merge sort and the built-in     *)
(* sort, the dataset generators, and the benchmark driver (bench_one,      *)
(* run_bench, analyze_scaling, main).                                      *)
(*                                                                         *)
(* Python lists are objects on a heap: heap[id] is the content of list id. *)
(* A list element is a pair <<key, tag>>: the algorithms compare keys only *)
(* and the tag records the element's position in the caller's list.        *)
(* Python subscripts are 0-based and are kept 0-based in the locals; the   *)
(* operator ListGet translates a subscript into the 1-based TLA+ sequence. *)
(***************************************************************************)
EXTENDS Integers, Sequences, FiniteSets, TLC

\* ------------------------------------------------------------------ bounds
MaxLen == 4       \* longest list handed to a sort call directly
MaxKey == 2       \* keys of those lists are 0..MaxKey
MaxN == 3         \* largest n handed to a generator directly
MaxOutcomes == 3  \* an unseeded draw from a wider range is sampled at its ends
MaxSizes == 2     \* most entries of the --sizes list
ScalingUnit == 1  \* analyze_scaling's sizes are multiples of it (1000 in the code)

VARIABLES
  heap,     \* list objects: heap[id] is the content of the list with that id
  algo,     \* the algorithm that is running: "Insertion", "Merge", "Timsort(sorted)"
  spc,      \* position in the running sort call
  sarg,     \* id of the caller's list (the argument arr)
  sin,      \* content of the caller's list when the call was made
  loc,      \* insertion_sort's locals: a (id), i, j, key
  frames,   \* merge_sort's call stack, innermost call last
  sret,     \* id of the list the last return statement returned, 0 before any
  subs      \* the subscripts the last step evaluated: a set of <<index, length>>

sortVars == <<heap, algo, spc, sarg, sin, loc, frames, sret, subs>>

VARIABLES
  rng,      \* state of the random module's generator
  gkind,    \* name of the generator that is running (a name of DATASETS)
  gn,       \* its argument n
  gratio,   \* make_nearly_sorted's swaps_ratio, a fraction num/den
  gpc,      \* position in the generator call
  ga,       \* the list of integers it is building
  gswaps,   \* make_nearly_sorted's local swaps
  gdone     \* number of iterations of its loop that have run

genVars == <<rng, gkind, gn, gratio, gpc, ga, gswaps, gdone>>

VARIABLES
  cfg,      \* the parsed command line: sizes, repeat, number, ins_max, no_scaling
  pc,       \* position in main / run_bench / analyze_scaling / bench_one
  ns,       \* main's list of sizes
  ni,       \* run_bench: index into ns of the current n; analyze_scaling: into its ns
  di,       \* run_bench: index into DATASETS of the current dataset
  ai,       \* index into Algos of the current algorithm
  times_ms, \* run_bench's dict times_ms
  bo,       \* bench_one's arguments, whether timer.repeat has run, and sum(runs)
  prev_t,   \* analyze_scaling's prev_t
  data,     \* content of the list data when its generator returned it
  call,     \* the calls of the thunk in the last timer.repeat: what each was handed
  cell,     \* what happened in the current (n, dataset) cell so far
  printed,  \* the lines the last step wrote to standard output
  nprinted, \* number of lines written to standard output by this process
  timing,   \* whether bench_one has been entered by this process
  seeds,    \* number of random.seed calls made by this process
  exit,     \* exit status of the process, "running" before it ends
  genLog,   \* the datasets this process generated, in order
  prevLog,  \* the datasets the previous process generated
  runNo     \* 1 for the first process, 2 for the second

benchVars == <<cfg, pc, ns, ni, di, ai, times_ms, bo, prev_t, data, call, cell,
               printed, nprinted, timing, seeds, exit, genLog, prevLog, runNo>>

vars == <<sortVars, genVars, benchVars>>

\* ------------------------------------------------------- lists and elements
Key(x) == x[1]
Tag(x) == x[2]

\* the element of a one-element set
The(S) == CHOOSE x \in S : TRUE

\* a list of integers as a list of elements tagged with their position
Tagged(s) == [k \in 1..Len(s) |-> <<s[k], k - 1>>]
Keys(s) == [k \in 1..Len(s) |-> Key(s[k])]

IndexError == <<"IndexError">>

\* Python's a[idx]: 0-based, a negative subscript counts from the end
ListGet(a, idx) ==
  IF idx >= 0 /\ idx < Len(a) THEN a[idx + 1]
  ELSE IF idx < 0 /\ idx >= -Len(a) THEN a[Len(a) + idx + 1]
  ELSE IndexError

\* Python's a[lo:hi] for 0 <= lo, hi
Slice(a, lo, hi) ==
  LET h == IF hi > Len(a) THEN Len(a) ELSE hi
  IN  IF lo >= h THEN <<>> ELSE [k \in 1..(h - lo) |-> a[lo + k]]

\* the id a new list gets, and the heap with it
NewId(h) == Len(h) + 1
Alloc(h, content) == Append(h, content)

\* lines 114-118 and 151-153: the algorithms, in the order they are run
Algos == <<"Insertion", "Merge", "Timsort(sorted)">>
AlgoNames == {Algos[k] : k \in 1..Len(Algos)}

NoLoc == [a |-> 0, i |-> 0, j |-> 0, key |-> <<0, 0>>]

\* --------------------------------------------------------- insertion_sort
\* a variant of the first conjunct of line 19 that lets j reach -1
InsLowerBoundMinusOne(j) == j >= -1
\* line 19, first conjunct: j >= 0
InsLowerBound(j) == j >= 0

\* a variant of the second conjunct of line 19 with the comparison reversed
InsGreaterFlipped(x, key) == Key(x) < Key(key)
\* line 19, second conjunct: a[j] > key
InsGreater(x, key) == Key(x) > Key(key)

\* line 19: while j >= 0 and a[j] > key ('and' evaluates a[j] only when j >= 0)
InsWhileCond(a, j, key) == InsLowerBound(j) /\ InsGreater(ListGet(a, j), key)

\* the subscripts the loop test of line 19 evaluates
InsWhileSubs(a, j) == IF InsLowerBound(j) THEN {<<j, Len(a)>>} ELSE {}

\* line 15: a = arr.copy()
InsCopy ==
  /\ algo = "Insertion" /\ spc = "call"
  /\ heap' = Alloc(heap, heap[sarg])
  /\ loc' = [NoLoc EXCEPT !.a = NewId(heap), !.i = 1]
  /\ spc' = "ins_for"
  /\ subs' = {}
  /\ UNCHANGED <<algo, sarg, sin, frames, sret>>
  /\ UNCHANGED <<genVars, benchVars>>

\* lines 16-18: the next i of the for loop; key = a[i]; j = i - 1
InsForNext ==
  /\ spc = "ins_for"
  /\ loc.i < Len(heap[loc.a])
  /\ loc' = [loc EXCEPT !.key = ListGet(heap[loc.a], loc.i), !.j = loc.i - 1]
  /\ subs' = {<<loc.i, Len(heap[loc.a])>>}
  /\ spc' = "ins_while"
  /\ UNCHANGED <<heap, algo, sarg, sin, frames, sret>>
  /\ UNCHANGED <<genVars, benchVars>>

\* lines 19-21: the loop test holds; a[j + 1] = a[j]; j -= 1
InsShift ==
  /\ spc = "ins_while"
  /\ InsWhileCond(heap[loc.a], loc.j, loc.key)
  /\ heap' = [heap EXCEPT ![loc.a] =
                [@ EXCEPT ![loc.j + 2] = ListGet(heap[loc.a], loc.j)]]
  /\ subs' = InsWhileSubs(heap[loc.a], loc.j)
               \cup {<<loc.j, Len(heap[loc.a])>>, <<loc.j + 1, Len(heap[loc.a])>>}
  /\ loc' = [loc EXCEPT !.j = loc.j - 1]
  /\ UNCHANGED <<algo, spc, sarg, sin, frames, sret>>
  /\ UNCHANGED <<genVars, benchVars>>

\* lines 19, 22: the loop test fails; a[j + 1] = key; on to the next i
InsPlace ==
  /\ spc = "ins_while"
  /\ ~InsWhileCond(heap[loc.a], loc.j, loc.key)
  /\ heap' = [heap EXCEPT ![loc.a] = [@ EXCEPT ![loc.j + 2] = loc.key]]
  /\ subs' = InsWhileSubs(heap[loc.a], loc.j)
               \cup {<<loc.j + 1, Len(heap[loc.a])>>}
  /\ loc' = [loc EXCEPT !.i = loc.i + 1]
  /\ spc' = "ins_for"
  /\ UNCHANGED <<algo, sarg, sin, frames, sret>>
  /\ UNCHANGED <<genVars, benchVars>>

\* lines 16, 23: the for loop is exhausted; return a
InsReturn ==
  /\ spc = "ins_for"
  /\ loc.i >= Len(heap[loc.a])
  /\ sret' = loc.a
  /\ spc' = "done"
  /\ subs' = {}
  /\ UNCHANGED <<heap, algo, sarg, sin, loc, frames>>
  /\ UNCHANGED <<genVars, benchVars>>

\* ------------------------------------------------------------- merge_sort
\* A frame of merge_sort: arr is the argument's id, pc the position in the
\* body, left/right the ids of the sorted halves, and i, j, out _merge's locals.
Frame(arr) == [arr |-> arr, pc |-> "enter", n |-> 0, mid |-> 0,
               left |-> 0, right |-> 0, i |-> 0, j |-> 0, out |-> 0]

Top == frames[Len(frames)]
SetTop(f) == [frames EXCEPT ![Len(frames)] = f]
Pop == SubSeq(frames, 1, Len(frames) - 1)

\* line 29: if n <= 1
MsBaseCase(n) == n <= 1

\* a variant of line 30 that returns arr itself
MsBaseReturnAlias(h, arr) == [heap |-> h, id |-> arr]
\* line 30: return arr.copy(), as the heap after it and the id returned
MsBaseReturn(h, arr) == [heap |-> Alloc(h, h[arr]), id |-> NewId(h)]

\* line 31: mid = n // 2
MsMid(n) == n \div 2

\* a variant of line 41 that takes the right element on a tie
MergeTakesLeftStrict(x, y) == Key(x) < Key(y)
\* line 41: if left[i] <= right[j]
MergeTakesLeft(x, y) == Key(x) <= Key(y)

\* line 40: while i < len(left) and j < len(right)
MergeWhileCond(left, right, i, j) == i < Len(left) /\ j < Len(right)

\* a return statement of the innermost call: the caller resumes with the value
Return(id) ==
  /\ sret' = id
  /\ frames' = Pop
  /\ spc' = IF Len(frames) = 1 THEN "done" ELSE "ms"

\* line 26: the call merge_sort(arr) from the caller
MsCall ==
  /\ algo = "Merge" /\ spc = "call"
  /\ frames' = <<Frame(sarg)>>
  /\ spc' = "ms"
  /\ subs' = {}
  /\ UNCHANGED <<heap, algo, sarg, sin, loc, sret>>
  /\ UNCHANGED <<genVars, benchVars>>

\* lines 28-30: n = len(arr); if n <= 1: return arr.copy()
MsBase ==
  /\ spc = "ms" /\ Top.pc = "enter"
  /\ MsBaseCase(Len(heap[Top.arr]))
  /\ LET r == MsBaseReturn(heap, Top.arr)
     IN  heap' = r.heap /\ Return(r.id)
  /\ subs' = {}
  /\ UNCHANGED <<algo, sarg, sin, loc>>
  /\ UNCHANGED <<genVars, benchVars>>

\* lines 28-32: n >= 2; mid = n // 2; the call merge_sort(arr[:mid])
MsSplitLeft ==
  /\ spc = "ms" /\ Top.pc = "enter"
  /\ ~MsBaseCase(Len(heap[Top.arr]))
  /\ LET n == Len(heap[Top.arr])
         mid == MsMid(n)
     IN  /\ heap' = Alloc(heap, Slice(heap[Top.arr], 0, mid))
         /\ frames' = Append(SetTop([Top EXCEPT !.pc = "left", !.n = n, !.mid = mid]),
                             Frame(NewId(heap)))
  /\ subs' = {}
  /\ UNCHANGED <<algo, spc, sarg, sin, loc, sret>>
  /\ UNCHANGED <<genVars, benchVars>>

\* lines 32-33: left = the value returned; the call merge_sort(arr[mid:])
MsSplitRight ==
  /\ spc = "ms" /\ Top.pc = "left"
  /\ heap' = Alloc(heap, Slice(heap[Top.arr], Top.mid, Top.n))
  /\ frames' = Append(SetTop([Top EXCEPT !.pc = "right", !.left = sret]),
                      Frame(NewId(heap)))
  /\ subs' = {}
  /\ UNCHANGED <<algo, spc, sarg, sin, loc, sret>>
  /\ UNCHANGED <<genVars, benchVars>>

\* lines 33-34, 38-39: right = the value returned; _merge(left, right) starts
\* with i = j = 0 and out = []
MergeStart ==
  /\ spc = "ms" /\ Top.pc = "right"
  /\ heap' = Alloc(heap, <<>>)
  /\ frames' = SetTop([Top EXCEPT !.pc = "merge", !.right = sret,
                                  !.i = 0, !.j = 0, !.out = NewId(heap)])
  /\ subs' = {}
  /\ UNCHANGED <<algo, spc, sarg, sin, loc, sret>>
  /\ UNCHANGED <<genVars, benchVars>>

\* lines 40-43: left[i] <= right[j]; out.append(left[i]); i += 1
MergeLeft ==
  /\ spc = "ms" /\ Top.pc = "merge"
  /\ MergeWhileCond(heap[Top.left], heap[Top.right], Top.i, Top.j)
  /\ MergeTakesLeft(ListGet(heap[Top.left], Top.i), ListGet(heap[Top.right], Top.j))
  /\ heap' = [heap EXCEPT ![Top.out] = Append(@, ListGet(heap[Top.left], Top.i))]
  /\ frames' = SetTop([Top EXCEPT !.i = Top.i + 1])
  /\ subs' = {<<Top.i, Len(heap[Top.left])>>, <<Top.j, Len(heap[Top.right])>>}
  /\ UNCHANGED <<algo, spc, sarg, sin, loc, sret>>
  /\ UNCHANGED <<genVars, benchVars>>

\* lines 40-41, 44-46: otherwise; out.append(right[j]); j += 1
MergeRight ==
  /\ spc = "ms" /\ Top.pc = "merge"
  /\ MergeWhileCond(heap[Top.left], heap[Top.right], Top.i, Top.j)
  /\ ~MergeTakesLeft(ListGet(heap[Top.left], Top.i), ListGet(heap[Top.right], Top.j))
  /\ heap' = [heap EXCEPT ![Top.out] = Append(@, ListGet(heap[Top.right], Top.j))]
  /\ frames' = SetTop([Top EXCEPT !.j = Top.j + 1])
  /\ subs' = {<<Top.i, Len(heap[Top.left])>>, <<Top.j, Len(heap[Top.right])>>}
  /\ UNCHANGED <<algo, spc, sarg, sin, loc, sret>>
  /\ UNCHANGED <<genVars, benchVars>>

\* lines 47-51, 34: the loop is over; out.extend(left[i:]); out.extend(right[j:]);
\* _merge returns out and merge_sort returns it
MergeFinish ==
  /\ spc = "ms" /\ Top.pc = "merge"
  /\ ~MergeWhileCond(heap[Top.left], heap[Top.right], Top.i, Top.j)
  /\ heap' = [heap EXCEPT ![Top.out] =
                @ \o Slice(heap[Top.left], Top.i, Len(heap[Top.left]))
                  \o Slice(heap[Top.right], Top.j, Len(heap[Top.right]))]
  /\ Return(Top.out)
  /\ subs' = {}
  /\ UNCHANGED <<algo, sarg, sin, loc>>
  /\ UNCHANGED <<genVars, benchVars>>

\* ---------------------------------------------------------- timsort_sorted
\* Where the element at position i of s goes in sorted(s): after the elements
\* of lesser key and after the earlier elements of equal key
Rank(s, i) ==
  1 + Cardinality({m \in 1..Len(s) :
                     \/ Key(s[m]) < Key(s[i])
                     \/ (Key(s[m]) = Key(s[i]) /\ m < i)})

\* The built-in sorted(): a new list, ascending, equal keys in their input order
sorted(s) ==
  The({SubSeq([p \in 1..Len(s) |-> s[CHOOSE i \in 1..Len(s) : rank[i] = p]], 1, Len(s)) :
         rank \in {SubSeq([i \in 1..Len(s) |-> Rank(s, i)], 1, Len(s))}})

\* line 56: return sorted(arr)
TimsortReturn(h, arr) == [heap |-> Alloc(h, sorted(h[arr])), id |-> NewId(h)]

TimsortCall ==
  /\ algo = "Timsort(sorted)" /\ spc = "call"
  /\ LET r == TimsortReturn(heap, sarg)
     IN  heap' = r.heap /\ sret' = r.id
  /\ spc' = "done"
  /\ subs' = {}
  /\ UNCHANGED <<algo, sarg, sin, loc, frames>>
  /\ UNCHANGED <<genVars, benchVars>>

\* --------------------------------------------------------- random module
\* The generator of the random module is CPython's MT19937. Before
\* random.seed() it is seeded from the operating system's entropy and a draw
\* can be any value of the range. After random.seed(x) its state is fixed by
\* x and by the number of 32-bit words drawn since: the state is kept as that
\* pair, and the word at a position is computed as the C code computes it
\* (init_by_array, the regeneration of the 624 words, the tempering).
\* A 32-bit word is a pair <<hi, lo>> of 16-bit halves; every intermediate
\* result stays below 2^31.
Unseeded == [seeded |-> FALSE, key |-> 0, pos |-> 0]

\* int.bit_length() of a natural number below 2^30
BitLength(x) == CHOOSE k \in 0..30 : x < 2 ^ k /\ (k = 0 \/ x >= 2 ^ (k - 1))

Abs(x) == IF x < 0 THEN -x ELSE x

\* bitwise operations and arithmetic modulo 2^32 on words
Bit(a, k) == (a \div (2 ^ k)) % 2

Xor4(a, b) ==
  ((Bit(a, 0) + Bit(b, 0)) % 2) + 2 * ((Bit(a, 1) + Bit(b, 1)) % 2)
  + 4 * ((Bit(a, 2) + Bit(b, 2)) % 2) + 8 * ((Bit(a, 3) + Bit(b, 3)) % 2)

Xor16(a, b) ==
  Xor4(a % 16, b % 16) + 16 * Xor4((a \div 16) % 16, (b \div 16) % 16)
  + 256 * Xor4((a \div 256) % 16, (b \div 256) % 16)
  + 4096 * Xor4(a \div 4096, b \div 4096)

And4(a, b) ==
  (Bit(a, 0) * Bit(b, 0)) + 2 * (Bit(a, 1) * Bit(b, 1))
  + 4 * (Bit(a, 2) * Bit(b, 2)) + 8 * (Bit(a, 3) * Bit(b, 3))

And16(a, b) ==
  And4(a % 16, b % 16) + 16 * And4((a \div 16) % 16, (b \div 16) % 16)
  + 256 * And4((a \div 256) % 16, (b \div 256) % 16)
  + 4096 * And4(a \div 4096, b \div 4096)

Xor32(a, b) == <<Xor16(a[1], b[1]), Xor16(a[2], b[2])>>
And32(a, b) == <<And16(a[1], b[1]), And16(a[2], b[2])>>

Shr32(w, s) ==
  IF s >= 16 THEN <<0, w[1] \div (2 ^ (s - 16))>>
  ELSE <<w[1] \div (2 ^ s), ((w[1] % (2 ^ s)) * (2 ^ (16 - s))) + (w[2] \div (2 ^ s))>>

Shl32(w, s) ==
  IF s >= 16 THEN <<(w[2] % (2 ^ (32 - s))) * (2 ^ (s - 16)), 0>>
  ELSE <<((w[1] % (2 ^ (16 - s))) * (2 ^ s)) + (w[2] \div (2 ^ (16 - s))),
         (w[2] % (2 ^ (16 - s))) * (2 ^ s)>>

Add32(a, b) ==
  LET lo == a[2] + b[2]
  IN  <<(a[1] + b[1] + (lo \div 65536)) % 65536, lo % 65536>>

Sub32(a, b) ==
  LET lo == a[2] - b[2] + 65536
  IN  <<(a[1] - b[1] + 65536 - (IF lo < 65536 THEN 1 ELSE 0)) % 65536, lo % 65536>>

\* (x * y) mod 2^16 and the full product of two 16-bit numbers
MulLo16(x, y) == (((x % 256) * y) + ((((x \div 256) * y) % 256) * 256)) % 65536

Mul16(x, y) ==
  LET p0 == (x % 256) * y
      p1 == (x \div 256) * y
      t == p0 + ((p1 % 256) * 256)
  IN  <<(t \div 65536) + (p1 \div 256), t % 65536>>

Mul32(a, c) ==
  LET f == Mul16(a[2], c[2])
  IN  <<(f[1] + MulLo16(a[1], c[2]) + MulLo16(a[2], c[1])) % 65536, f[2]>>

Word(x) == <<x \div 65536, x % 65536>>

\* the state holds N words; the regeneration pairs word i with word i + M
MtN == 624
MtM == 397

\* w ^ (w >> 30)
Mix(w) == Xor32(w, Shr32(w, 30))

\* one iteration of a loop of the C code, on the state st (st[i + 1] is mt[i]):
\*   genrand  init_genrand: mt[i] = 1812433253 * (mt[i-1] ^ (mt[i-1] >> 30)) + i
\*   key      init_by_array, first loop, for a key of one word (j stays 0):
\*            mt[i] = (mt[i] ^ ((mt[i-1] ^ (mt[i-1] >> 30)) * 1664525)) + key
\*   mix      init_by_array, second loop:
\*            mt[i] = (mt[i] ^ ((mt[i-1] ^ (mt[i-1] >> 30)) * 1566083941)) - i
\*   twist    genrand_uint32, regeneration: y = (mt[i] & 0x80000000) |
\*            (mt[i+1] & 0x7fffffff); mt[i] = mt[i+M] ^ (y >> 1) ^ (y odd ? 0x9908b0df : 0)
MtStep(ph, key, st, i) ==
  CASE ph = "genrand" ->
         Append(st, Add32(Mul32(Mix(st[i]), <<27655, 35173>>), Word(i)))
    [] ph = "key" ->
         [st EXCEPT ![i + 1] =
            Add32(Xor32(st[i + 1], Mul32(Mix(st[i]), <<25, 26125>>)), key)]
    [] ph = "mix" ->
         [st EXCEPT ![i + 1] =
            Sub32(Xor32(st[i + 1], Mul32(Mix(st[i]), <<23896, 35685>>)), Word(i))]
    [] ph = "twist" ->
         LET cur == st[i + 1]
             nxt == st[((i + 1) % MtN) + 1]
             y == <<((cur[1] \div 32768) * 32768) + (nxt[1] % 32768), nxt[2]>>
             mag == IF y[2] % 2 = 1 THEN <<39176, 45279>> ELSE <<0, 0>>
         IN  [st EXCEPT ![i + 1] =
                Xor32(Xor32(st[((i + MtM) % MtN) + 1], Shr32(y, 1)), mag)]

\* the iterations lo, lo + 1, ..., hi - 1 of one loop, in order
RECURSIVE MtRun(_, _, _, _, _)
MtRun(ph, key, st, lo, hi) ==
  IF hi <= lo \/ Len(st) = 0 THEN st
  ELSE IF hi = lo + 1 THEN MtStep(ph, key, st, lo)
  ELSE LET mid == (lo + hi) \div 2
           half == MtRun(ph, key, st, lo, mid)
       IN  IF Len(half) = 0 THEN half ELSE MtRun(ph, key, half, mid, hi)

\* init_genrand(s): mt[0] = s, then mt[1..N-1]
init_genrand(s) == MtRun("genrand", <<0, 0>>, <<s>>, 1, MtN)

\* init_by_array with a key of one word: init_genrand(19650218), N
\* iterations of the first loop and N - 1 of the second, each starting at
\* i = 1 and wrapping at i = N with mt[0] = mt[N-1], then mt[0] = 0x80000000
init_by_array(key) ==
  LET a == MtRun("key", key, init_genrand(<<299, 54954>>), 1, MtN)
      b == MtStep("key", key, [a EXCEPT ![1] = a[MtN]], 1)
      c == MtRun("mix", key, b, 2, MtN)
      d == MtStep("mix", key, [c EXCEPT ![1] = c[MtN]], 1)
  IN  [d EXCEPT ![1] = <<32768, 0>>]

\* the regeneration of all N words
Twist(st) == MtRun("twist", <<0, 0>>, st, 0, MtN)

\* the tempering of a word: y ^= y >> 11; y ^= (y << 7) & 0x9d2c5680;
\* y ^= (y << 15) & 0xefc60000; y ^= y >> 18
Temper(w) ==
  LET y1 == Xor32(w, Shr32(w, 11))
      y2 == Xor32(y1, And32(Shl32(y1, 7), <<40236, 22144>>))
      y3 == Xor32(y2, And32(Shl32(y2, 15), <<61382, 0>>))
  IN  Xor32(y3, Shr32(y3, 18))

\* the state after random.seed(key) and b + 1 regenerations
RECURSIVE MtBlock(_, _)
MtBlock(key, b) ==
  IF b = 0 THEN Twist(init_by_array(Word(key))) ELSE Twist(MtBlock(key, b - 1))

\* line 188: the seed the program passes to random.seed
SeedValue == 42

\* the words genrand_uint32 hands out from the state st, in order
MtOutput(st) == The({[i \in 1..MtN |-> Temper(s[i])] : s \in {st}})

\* the first 624 words after random.seed(SeedValue)
MainStream == MtOutput(MtBlock(SeedValue, 0))

\* genrand_uint32: the word at position i (from 0) after random.seed(key)
MtWord(key, i) ==
  IF key = SeedValue /\ i < MtN THEN MainStream[i + 1]
  ELSE MtOutput(MtBlock(key, i \div MtN))[(i % MtN) + 1]

\* one word has been drawn
RngAdvance(r) == [r EXCEPT !.pos = @ + 1]

\* random.getrandbits(k) for 1 <= k <= 30: the top k bits of the next word
GetRandBits(r, k) ==
  The({IF k <= 16 THEN w[1] \div (2 ^ (16 - k))
       ELSE (w[1] * (2 ^ (k - 16))) + (w[2] \div (2 ^ (32 - k))) :
         w \in {MtWord(r.key, r.pos)}})

\* Random._randbelow(n), n >= 1: words are drawn until one's top
\* n.bit_length() bits are below n; the value and the state it leaves
RECURSIVE RandBelow(_, _)
RandBelow(r, n) ==
  The({IF v < n THEN [val |-> v, rng |-> RngAdvance(r)]
       ELSE RandBelow(RngAdvance(r), n) : v \in {GetRandBits(r, BitLength(n))}})

\* the values an unseeded draw below k is sampled from
Outcomes(k) == IF k <= MaxOutcomes THEN 0..(k - 1) ELSE {0, 1, k - 1}

\* random.randrange(k) for k >= 1: the values it can return in state r, each
\* with the state it leaves
RandRange(r, k) ==
  IF r.seeded THEN {RandBelow(r, k)}
  ELSE {[val |-> v, rng |-> r] : v \in Outcomes(k)}

\* ------------------------------------------------------- float arithmetic
\* int(n * swaps_ratio) multiplies in binary floating point. A float that is
\* not zero is kept as its sign, the 53 bits b1 b2 ... b53 of its significand
\* (b1 = 1) and its exponent: its value is b1.b2...b53 (binary) times 2^exp.
\* Naturals below 2^30 keep every intermediate result in TLC's integers.
MantissaBits == 53

FloatZero == [zero |-> TRUE, neg |-> FALSE, bits |-> <<>>, exp |-> 0]

\* binary digits of a natural number, most significant first
Binary(x) ==
  LET n == BitLength(x) IN [i \in 1..n |-> (x \div (2 ^ (n - i))) % 2]

\* a and b scaled by powers of two until b <= a < 2b, for a / b = (a'/b') * 2^e
Normalise(a, b) ==
  LET d == BitLength(a) - BitLength(b)
      a1 == IF d < 0 THEN a * (2 ^ (-d)) ELSE a
      b1 == IF d > 0 THEN b * (2 ^ d) ELSE b
  IN  IF a1 < b1 THEN [a |-> 2 * a1, b |-> b1, e |-> d - 1]
      ELSE [a |-> a1, b |-> b1, e |-> d]

\* the next k bits of the quotient r / b (r < b) and the remainder they leave
RECURSIVE LongDiv(_, _, _)
LongDiv(r, b, k) ==
  IF k = 0 THEN [bits |-> <<>>, rem |-> r]
  ELSE IF k = 1
  THEN IF 2 * r >= b THEN [bits |-> <<1>>, rem |-> (2 * r) - b]
       ELSE [bits |-> <<0>>, rem |-> 2 * r]
  ELSE LET first == LongDiv(r, b, k \div 2)
       IN  IF first.rem < 0 THEN first
           ELSE LET second == LongDiv(first.rem, b, k - (k \div 2))
                IN  [bits |-> first.bits \o second.bits, rem |-> second.rem]

\* the bits plus one; carry tells that every bit was 1 (the sum is 1 0...0)
Increment(bits) ==
  LET zeros == {i \in 1..Len(bits) : bits[i] = 0}
  IN  IF zeros = {} THEN [bits |-> [i \in 1..Len(bits) |-> 0], carry |-> TRUE]
      ELSE LET p == CHOOSE i \in zeros : \A j \in zeros : j <= i
           IN  [bits |-> [i \in 1..Len(bits) |->
                            IF i < p THEN bits[i] ELSE IF i = p THEN 1 ELSE 0],
                carry |-> FALSE]

\* the float of these 53 bits and exponent, or the next float up
Rounded(neg, bits, exp, up) ==
  IF ~up THEN [zero |-> FALSE, neg |-> neg, bits |-> bits, exp |-> exp]
  ELSE LET inc == Increment(bits)
       IN  IF inc.carry
           THEN [zero |-> FALSE, neg |-> neg,
                 bits |-> [i \in 1..Len(bits) |-> IF i = 1 THEN 1 ELSE 0],
                 exp |-> exp + 1]
           ELSE [zero |-> FALSE, neg |-> neg, bits |-> inc.bits, exp |-> exp]

\* the float nearest to num / den (ties to even): the value of the literal
FloatOfFraction(num, den) ==
  IF num = 0 THEN FloatZero
  ELSE LET s == Normalise(Abs(num), den)
           q == LongDiv(s.a - s.b, s.b, MantissaBits - 1)
           up == \/ 2 * q.rem > s.b
                 \/ (2 * q.rem = s.b /\ q.bits[MantissaBits - 1] = 1)
       IN  Rounded(num < 0, <<1>> \o q.bits, s.e, up)

\* bits[lo..hi] times m plus carry: the bits of those places and the carry out
RECURSIVE TimesNat(_, _, _, _, _)
TimesNat(bits, lo, hi, m, carry) ==
  IF hi < lo THEN [bits |-> <<>>, carry |-> carry]
  ELSE IF hi = lo
  THEN LET t == (bits[lo] * m) + carry
       IN  [bits |-> <<t % 2>>, carry |-> t \div 2]
  ELSE LET mid == (lo + hi) \div 2
           low == TimesNat(bits, mid + 1, hi, m, carry)
       IN  IF low.carry < 0 THEN low
           ELSE LET high == TimesNat(bits, lo, mid, m, low.carry)
                IN  [bits |-> high.bits \o low.bits, carry |-> high.carry]

\* float * int, rounded to the nearest float (ties to even)
FloatTimesInt(f, n) ==
  IF f.zero \/ n = 0 THEN FloatZero
  ELSE LET t == TimesNat(f.bits, 1, MantissaBits, Abs(n), 0)
           p == Binary(t.carry) \o t.bits
           kept == SubSeq(p, 1, MantissaBits)
           lost == SubSeq(p, MantissaBits + 1, Len(p))
           up == /\ lost # <<>> /\ lost[1] = 1
                 /\ \/ \E k \in 2..Len(lost) : lost[k] = 1
                    \/ kept[MantissaBits] = 1
       IN  Rounded(f.neg # (n < 0), kept, f.exp + (Len(p) - MantissaBits), up)

\* the natural number of at most 30 bits, most significant first
RECURSIVE BitsValue(_)
BitsValue(bits) ==
  IF Len(bits) = 0 THEN 0
  ELSE IF Len(bits) = 1 THEN bits[1]
  ELSE LET h == Len(bits) \div 2
       IN  (BitsValue(SubSeq(bits, 1, h)) * (2 ^ (Len(bits) - h)))
           + BitsValue(SubSeq(bits, h + 1, Len(bits)))

\* int(x) of a float: its integer part, towards zero
IntOfFloat(f) ==
  IF f.zero \/ f.exp < 0 THEN 0
  ELSE LET v == BitsValue(SubSeq(f.bits, 1, f.exp + 1))
       IN  IF f.neg THEN -v ELSE v

\* ------------------------------------------------------------- generators
DATASETS == <<"random", "sorted", "reverse", "nearly_sorted", "many_duplicates">>

RandomHi == 1000000000
DefaultUniques == 100
DefaultSwapsRatio == [num |-> 1, den |-> 100]

\* list(range(n))
RangeList(n) == IF n <= 0 THEN <<>> ELSE [k \in 1..n |-> k - 1]

\* line 67: list(range(n))
make_sorted(n) == RangeList(n)

\* line 70: list(range(n, 0, -1))
make_reverse(n) == IF n <= 0 THEN <<>> ELSE [k \in 1..n |-> n + 1 - k]

\* line 75: swaps = max(1, int(n * swaps_ratio)); the ratio num / den stands
\* for the float nearest to it
NumSwaps(n, ratio) ==
  LET k == IntOfFloat(FloatTimesInt(FloatOfFraction(ratio.num, ratio.den), n))
  IN  IF k > 1 THEN k ELSE 1

\* a variant of line 79 that only assigns a[i]
SwapOverwrite(a, i, j) == [a EXCEPT ![i + 1] = a[j + 1]]
\* line 79: a[i], a[j] = a[j], a[i]
Swap(a, i, j) == [a EXCEPT ![i + 1] = a[j + 1], ![j + 1] = a[i + 1]]

\* lines 64, 84: a list comprehension of n draws below k, each shifted by lo:
\* the lists it can build from state r, each with the state it leaves
RECURSIVE DrawList(_, _, _, _)
DrawList(r, n, lo, k) ==
  IF n <= 0 THEN {[list |-> <<>>, rng |-> r]}
  ELSE UNION {{[list |-> <<lo + d.val>> \o t.list, rng |-> t.rng] :
                 t \in DrawList(d.rng, n - 1, lo, k)} : d \in RandRange(r, k)}

\* line 64: return [random.randint(0, 10**9) for _ in range(n)]
MakeRandom ==
  /\ gpc = "call" /\ gkind = "random"
  /\ \E d \in DrawList(rng, gn, 0, RandomHi - 0 + 1) : ga' = d.list /\ rng' = d.rng
  /\ gpc' = "returned"
  /\ UNCHANGED <<gkind, gn, gratio, gswaps, gdone>>
  /\ UNCHANGED <<sortVars, benchVars>>

\* line 84: return [random.randrange(uniques) for _ in range(n)]
MakeManyDuplicates ==
  /\ gpc = "call" /\ gkind = "many_duplicates"
  /\ \E d \in DrawList(rng, gn, 0, DefaultUniques) : ga' = d.list /\ rng' = d.rng
  /\ gpc' = "returned"
  /\ UNCHANGED <<gkind, gn, gratio, gswaps, gdone>>
  /\ UNCHANGED <<sortVars, benchVars>>

\* line 67: return list(range(n))
MakeSorted ==
  /\ gpc = "call" /\ gkind = "sorted"
  /\ ga' = make_sorted(gn)
  /\ gpc' = "returned"
  /\ UNCHANGED <<rng, gkind, gn, gratio, gswaps, gdone>>
  /\ UNCHANGED <<sortVars, benchVars>>

\* line 70: return list(range(n, 0, -1))
MakeReverse ==
  /\ gpc = "call" /\ gkind = "reverse"
  /\ ga' = make_reverse(gn)
  /\ gpc' = "returned"
  /\ UNCHANGED <<rng, gkind, gn, gratio, gswaps, gdone>>
  /\ UNCHANGED <<sortVars, benchVars>>

\* lines 74-75: a = list(range(n)); swaps = max(1, int(n * swaps_ratio))
NearlyStart ==
  /\ gpc = "call" /\ gkind = "nearly_sorted"
  /\ ga' = RangeList(gn)
  /\ gswaps' = NumSwaps(gn, gratio)
  /\ gdone' = 0
  /\ gpc' = "swaps"
  /\ UNCHANGED <<rng, gkind, gn, gratio>>
  /\ UNCHANGED <<sortVars, benchVars>>

\* lines 76-79: one iteration: i and j are drawn and a[i], a[j] exchanged
NearlySwap ==
  /\ gpc = "swaps" /\ gdone < gswaps
  /\ gn >= 1
  /\ \E i \in RandRange(rng, gn) : \E j \in RandRange(i.rng, gn) :
       /\ ga' = Swap(ga, i.val, j.val)
       /\ rng' = j.rng
  /\ gdone' = gdone + 1
  /\ UNCHANGED <<gkind, gn, gratio, gpc, gswaps>>
  /\ UNCHANGED <<sortVars, benchVars>>

\* line 77: random.randrange(n) raises ValueError("empty range") for n <= 0
NearlyRaise ==
  /\ gpc = "swaps" /\ gdone < gswaps
  /\ gn <= 0
  /\ gpc' = "raised"
  /\ UNCHANGED <<rng, gkind, gn, gratio, ga, gswaps, gdone>>
  /\ UNCHANGED <<sortVars, benchVars>>

\* lines 76, 80: the loop is exhausted; return a
NearlyReturn ==
  /\ gpc = "swaps" /\ gdone >= gswaps
  /\ gpc' = "returned"
  /\ UNCHANGED <<rng, gkind, gn, gratio, ga, gswaps, gdone>>
  /\ UNCHANGED <<sortVars, benchVars>>

\* no generator call is under way and random is as the interpreter starts it
GenIdle ==
  /\ rng = Unseeded
  /\ gkind = "none" /\ gn = 0 /\ gratio = DefaultSwapsRatio
  /\ gpc = "idle" /\ ga = <<>> /\ gswaps = 0 /\ gdone = 0

GenStep ==
  \/ MakeRandom
  \/ MakeManyDuplicates
  \/ MakeSorted
  \/ MakeReverse
  \/ NearlyStart
  \/ NearlySwap
  \/ NearlyRaise
  \/ NearlyReturn

\* ------------------------------------ the sorting functions as functions
\* lines 19-22: the while loop from j on, then a[j + 1] = key
RECURSIVE InsInner(_, _, _)
InsInner(a, j, key) ==
  IF InsWhileCond(a, j, key)
  THEN InsInner([a EXCEPT ![j + 2] = ListGet(a, j)], j - 1, key)
  ELSE [a EXCEPT ![j + 2] = key]

\* lines 16-22: the for loop from i on
RECURSIVE InsOuter(_, _)
InsOuter(a, i) ==
  IF i < Len(a) THEN InsOuter(InsInner(a, i - 1, ListGet(a, i)), i + 1) ELSE a

\* lines 13-23: the content of the list insertion_sort returns
insertion_sort(arr) == InsOuter(arr, 1)

\* lines 40-50: the while loop from (i, j) on, then the two extend calls
RECURSIVE MergeLoop(_, _, _, _, _)
MergeLoop(left, right, i, j, out) ==
  IF MergeWhileCond(left, right, i, j)
  THEN IF MergeTakesLeft(ListGet(left, i), ListGet(right, j))
       THEN MergeLoop(left, right, i + 1, j, Append(out, ListGet(left, i)))
       ELSE MergeLoop(left, right, i, j + 1, Append(out, ListGet(right, j)))
  ELSE out \o Slice(left, i, Len(left)) \o Slice(right, j, Len(right))

\* lines 37-51
merge(left, right) == MergeLoop(left, right, 0, 0, <<>>)

\* lines 26-34: the content of the list merge_sort returns
RECURSIVE merge_sort(_)
merge_sort(arr) ==
  IF MsBaseCase(Len(arr)) THEN arr
  ELSE merge(merge_sort(Slice(arr, 0, MsMid(Len(arr)))),
             merge_sort(Slice(arr, MsMid(Len(arr)), Len(arr))))

\* lines 54-56
timsort_sorted(arr) == sorted(arr)

\* A whole call algo(arg) as one step: the heap after it and the id returned.
\* Each function builds its result in lists of its own and returns a new one.
AlgoCall(h, name, arg) ==
  CASE name = "Insertion" -> [heap |-> Alloc(h, insertion_sort(h[arg])), id |-> NewId(h)]
    [] name = "Merge" -> [heap |-> Alloc(h, merge_sort(h[arg])), id |-> NewId(h)]
    [] name = "Timsort(sorted)" -> TimsortReturn(h, arg)

\* -------------------------------------------------------------- int(x)
\* A character is its Unicode code point and a token a sequence of characters.
\* The characters of general category Nd come in runs of ten, with the digit
\* values 0 to 9 in order: the first character of each run
DigitZeros ==
  {48, 1632, 1776, 1984, 2406, 2534, 2662, 2790, 2918, 3046, 3174, 3302, 3430,
   3558, 3664, 3792, 3872, 4160, 4240, 6112, 6160, 6470, 6608, 6784, 6800, 6992,
   7088, 7232, 7248, 42528, 43216, 43264, 43472, 43504, 43600, 44016, 65296,
   66720, 68912, 69734, 69872, 69942, 70096, 70384, 70736, 70864, 71248, 71360,
   71472, 71904, 72016, 72784, 73040, 73120, 92768, 92864, 93008, 120782,
   120792, 120802, 120812, 120822, 123200, 123632, 125264, 130032}

\* the characters int() reads as decimal digits, and the value of one
DigitChars == {z + k : z \in DigitZeros, k \in 0..9}
DigitVal(c) == c - (CHOOSE z \in DigitZeros : c - z \in 0..9)

\* the characters str.strip() drops: \t \n \v \f \r, U+001C to U+001F, the
\* space, U+0085, U+00A0 and the Unicode spaces
Whitespace ==
  {9, 10, 11, 12, 13, 28, 29, 30, 31, 32, 133, 160, 5760} \cup (8192..8202)
    \cup {8232, 8233, 8239, 8287, 12288}

\* str.strip(): the token without its leading and trailing whitespace
Strip(t) ==
  LET ink(k) == t[k] \notin Whitespace
  IN  IF \A k \in 1..Len(t) : ~ink(k) THEN <<>>
      ELSE SubSeq(t, CHOOSE k \in 1..Len(t) : ink(k) /\ \A m \in 1..(k - 1) : ~ink(m),
                     CHOOSE k \in 1..Len(t) : ink(k) /\ \A m \in (k + 1)..Len(t) : ~ink(m))

\* the number the decimal digits t write, most significant first
RECURSIVE DigitsValue(_)
DigitsValue(t) ==
  IF Len(t) = 0 THEN 0
  ELSE IF Len(t) = 1 THEN DigitVal(t[1])
  ELSE LET h == Len(t) \div 2
       IN  (DigitsValue(SubSeq(t, 1, h)) * (10 ^ (Len(t) - h)))
             + DigitsValue(SubSeq(t, h + 1, Len(t)))

ValueError == [ok |-> FALSE, val |-> 0]

\* sys.int_info.default_max_str_digits: int() raises ValueError for a string
\* of more decimal digits, leading zeros counted and underscores not
MaxStrDigits == 4300

\* int(x) of a token: the whitespace around it is dropped (int() does not
\* count U+001C to U+001F as whitespace, str.strip() does), then come an
\* optional sign ('+' is 43, '-' is 45) and at most MaxStrDigits decimal
\* digits, with single underscores (95) allowed between two digits; anything
\* else raises ValueError
IntOf(t) ==
  LET ink(k) == t[k] \notin Whitespace \/ t[k] \in 28..31
      u == IF \A k \in 1..Len(t) : ~ink(k) THEN <<>>
           ELSE SubSeq(t, CHOOSE k \in 1..Len(t) : ink(k) /\ \A m \in 1..(k - 1) : ~ink(m),
                          CHOOSE k \in 1..Len(t) : ink(k) /\ \A m \in (k + 1)..Len(t) : ~ink(m))
      signed == u # <<>> /\ Head(u) \in {43, 45}
      d == IF signed THEN Tail(u) ELSE u
      wellFormed ==
        /\ d # <<>>
        /\ \A k \in 1..Len(d) : d[k] \in DigitChars \/ d[k] = 95
        /\ d[1] # 95 /\ d[Len(d)] # 95
        /\ \A k \in 1..(Len(d) - 1) : ~(d[k] = 95 /\ d[k + 1] = 95)
      digits == SelectSeq(d, LAMBDA c : c # 95)
      zero(k) == DigitVal(digits[k]) = 0
      n == IF \A k \in 1..Len(digits) : zero(k) THEN 0
           ELSE DigitsValue(SubSeq(digits,
                                   CHOOSE k \in 1..Len(digits) :
                                     ~zero(k) /\ \A m \in 1..(k - 1) : zero(m),
                                   Len(digits)))
  IN  IF ~wellFormed \/ Len(digits) > MaxStrDigits THEN ValueError
      ELSE [ok |-> TRUE, val |-> IF signed /\ Head(u) = 45 THEN -n ELSE n]

\* line 190: the tokens of args.sizes.split(",") that are kept: if x.strip()
KeptTokens(toks) == SelectSeq(toks, LAMBDA t : Strip(t) # <<>>)

\* ------------------------------------------------------------ the benchmark
None == [none |-> TRUE]
NotMeasured == [text |-> "-"]

NoTimes == [a \in AlgoNames |-> None]
NoBench == [repeat |-> 0, number |-> 0, ret |-> "none", ran |-> FALSE, sum |-> 0]
NoCall == {}
NoCell == [at |-> <<0, 0>>, gens |-> 0, insBench |-> 0, insCalls |-> 0]

\* line 109: sum(runs) / len(runs) / number, as the fraction sum / (len * number)
MeanTime(sum, len, number) == [sum |-> sum, per |-> len * number]

\* lines 138-140: f"{t:.2f}" of a measured time, the marker for None
CellText(t) == IF t = None THEN NotMeasured ELSE [text |-> "number", t |-> t]

\* a variant of line 133 that also skips n equal to the ceiling
SkipInsertionAtCeiling(name, n, ceiling) == name = "Insertion" /\ n >= ceiling
\* line 133: if algo_name == "Insertion" and n > include_insertion_upper_n
SkipInsertion(name, n, ceiling) == name = "Insertion" /\ n > ceiling

\* a variant of line 135 without the copy
BenchThunkArgShared(h, d) == [heap |-> h, id |-> d]
\* line 135: the thunk lambda d=data: algo(d.copy()) hands algo a copy of data
BenchThunkArg(h, d) == [heap |-> Alloc(h, h[d]), id |-> NewId(h)]

\* line 161: bench_one(algo, data, ...) hands algo the list data itself
ScalingThunkArg(h, d) == [heap |-> h, id |-> d]

\* a variant of line 188 that leaves the generator seeded by the system
SeedFromEntropy(x) == Unseeded
\* line 188: random.seed(42)
Seed(x) == [seeded |-> TRUE, key |-> Abs(x), pos |-> 0]

\* a step that writes nothing to standard output
Quiet == printed' = <<>> /\ nprinted' = nprinted

Write(lines) == printed' = lines /\ nprinted' = nprinted + Len(lines)

\* an exception that nothing catches ends the process with status 1
Die == pc' = "exit" /\ exit' = 1

\* ------------------------------------------------------------------ main
\* lines 187-188: args = parse_args(); random.seed(42)
MainSeed ==
  /\ pc = "start"
  /\ rng' = Seed(SeedValue)
  /\ seeds' = seeds + 1
  /\ pc' = "sizes"
  /\ Quiet
  /\ UNCHANGED <<cfg, ns, ni, di, ai, times_ms, bo, prev_t, data, call, cell,
                 timing, exit, genLog, prevLog, runNo>>
  /\ UNCHANGED <<gkind, gn, gratio, gpc, ga, gswaps, gdone, sortVars>>

\* line 190: ns = [int(x) for x in args.sizes.split(",") if x.strip()]
MainSizes ==
  /\ pc = "sizes"
  /\ \E kept \in {KeptTokens(cfg.sizes)} :
         /\ \A k \in 1..Len(kept) : IntOf(kept[k]).ok
         /\ ns' = [k \in 1..Len(kept) |-> IntOf(kept[k]).val]
  /\ pc' = "run_bench"
  /\ Quiet
  /\ UNCHANGED <<cfg, ni, di, ai, times_ms, bo, prev_t, data, call, cell,
                 timing, seeds, exit, genLog, prevLog, runNo>>
  /\ UNCHANGED <<genVars, sortVars>>

\* line 190: int(x) raises ValueError for a token that is no integer
MainSizesRaise ==
  /\ pc = "sizes"
  /\ \E kept \in {KeptTokens(cfg.sizes)} :
         \E k \in 1..Len(kept) : ~IntOf(kept[k]).ok
  /\ Die
  /\ Quiet
  /\ UNCHANGED <<cfg, ns, ni, di, ai, times_ms, bo, prev_t, data, call, cell,
                 timing, seeds, genLog, prevLog, runNo>>
  /\ UNCHANGED <<genVars, sortVars>>

\* ------------------------------------------------------------- run_bench
\* lines 121-123: the three header lines
BenchHeader ==
  /\ pc = "run_bench"
  /\ Write(<<[line |-> "Benchmark", repeat |-> cfg.repeat, number |-> cfg.number],
             [line |-> "columns"], [line |-> "rule"]>>)
  /\ ni' = 1 /\ di' = 1
  /\ pc' = "cell"
  /\ UNCHANGED <<cfg, ns, ai, times_ms, bo, prev_t, data, call, cell,
                 timing, seeds, exit, genLog, prevLog, runNo>>
  /\ UNCHANGED <<genVars, sortVars>>

\* lines 125-127: the next (n, dataset) cell; the call gen(n)
CellGen ==
  /\ pc = "cell"
  /\ ni <= Len(ns)
  /\ gkind' = DATASETS[di] /\ gn' = ns[ni] /\ gratio' = DefaultSwapsRatio
  /\ gpc' = "call" /\ ga' = <<>> /\ gswaps' = 0 /\ gdone' = 0
  /\ cell' = IF cell.at = <<ni, di>> THEN [cell EXCEPT !.gens = @ + 1]
             ELSE [NoCell EXCEPT !.at = <<ni, di>>, !.gens = 1]
  /\ call' = NoCall
  /\ pc' = "gen"
  /\ Quiet
  /\ UNCHANGED <<cfg, ns, ni, di, ai, times_ms, bo, prev_t, data,
                 timing, seeds, exit, genLog, prevLog, runNo>>
  /\ UNCHANGED <<rng, sortVars>>

\* an exception of the generator is not caught: the process ends
GenRaised ==
  /\ pc \in {"gen", "sc_gen"}
  /\ gpc = "raised"
  /\ gpc' = "idle"
  /\ Die
  /\ Quiet
  /\ UNCHANGED <<cfg, ns, ni, di, ai, times_ms, bo, prev_t, data, call, cell,
                 timing, seeds, genLog, prevLog, runNo>>
  /\ UNCHANGED <<rng, gkind, gn, gratio, ga, gswaps, gdone, sortVars>>

\* lines 127-129: data = the list returned; times_ms = {... None}
CellData ==
  /\ pc = "gen"
  /\ gpc = "returned"
  /\ gpc' = "idle"
  /\ heap' = <<Tagged(ga)>>
  /\ data' = Tagged(ga)
  /\ genLog' = Append(genLog, [n |-> gn, kind |-> gkind, data |-> ga])
  /\ times_ms' = NoTimes
  /\ ai' = 1
  /\ pc' = "algo"
  /\ Quiet
  /\ UNCHANGED <<cfg, ns, ni, di, bo, prev_t, call, cell,
                 timing, seeds, exit, prevLog, runNo>>
  /\ UNCHANGED <<rng, gkind, gn, gratio, ga, gswaps, gdone>>
  /\ UNCHANGED <<algo, spc, sarg, sin, loc, frames, sret, subs>>

\* lines 131-134: Insertion above the ceiling: continue
AlgoSkip ==
  /\ pc = "algo"
  /\ ai <= Len(Algos)
  /\ SkipInsertion(Algos[ai], ns[ni], cfg.ins_max)
  /\ ai' = ai + 1
  /\ Quiet
  /\ UNCHANGED <<cfg, pc, ns, ni, di, times_ms, bo, prev_t, data, call, cell,
                 timing, seeds, exit, genLog, prevLog, runNo>>
  /\ UNCHANGED <<genVars, sortVars>>

\* line 135: the call bench_one(lambda d=data: algo(d.copy()), data, repeat, number)
AlgoBench ==
  /\ pc = "algo"
  /\ ai <= Len(Algos)
  /\ ~SkipInsertion(Algos[ai], ns[ni], cfg.ins_max)
  /\ bo' = [NoBench EXCEPT !.repeat = cfg.repeat, !.number = cfg.number,
                           !.ret = "run_bench"]
  /\ cell' = IF Algos[ai] = "Insertion" THEN [cell EXCEPT !.insBench = @ + 1] ELSE cell
  /\ timing' = TRUE
  /\ pc' = "bench_one"
  /\ Quiet
  /\ UNCHANGED <<cfg, ns, ni, di, ai, times_ms, prev_t, data, call,
                 seeds, exit, genLog, prevLog, runNo>>
  /\ UNCHANGED <<genVars, sortVars>>

\* ------------------------------------------------------------- bench_one
\* range(k) runs max(0, k) times
Times(k) == IF k > 0 THEN k ELSE 0

\* k calls of the thunk, one after the other, from heap h on: the heap they
\* leave and what each call was handed. The lists a call creates are dropped
\* when it returns: only data, the list with id 1, lives on.
RECURSIVE RunThunk(_, _, _, _, _)
RunThunk(h, k, ret, name, seen) ==
  IF k = 0 THEN [heap |-> h, calls |-> seen]
  ELSE LET c == IF ret = "run_bench" THEN BenchThunkArg(h, 1) ELSE ScalingThunkArg(h, 1)
       IN  The({RunThunk(<<r.heap[1]>>, k - 1, ret, name,
                         seen \cup {[by |-> ret, algo |-> name, arg |-> c.id,
                                     argv |-> c.heap[c.id], before |-> h[1],
                                     res |-> r.heap[r.id]]}) :
                  r \in {AlgoCall(c.heap, name, c.id)}})

\* the clock ticks one timed batch can take
Ticks == {1, 2}

\* the values sum(runs) can have after k batches
RECURSIVE BatchSums(_)
BatchSums(k) ==
  IF k = 0 THEN {0} ELSE {s + t : s \in BatchSums(k - 1), t \in Ticks}

\* line 108: runs = timer.repeat(repeat=repeat, number=number): repeat batches
\* of number calls of the thunk, each batch timed
TimerRepeat ==
  /\ pc = "bench_one"
  /\ ~bo.ran
  /\ \E r \in {RunThunk(heap, Times(bo.repeat) * Times(bo.number), bo.ret, Algos[ai], {})} :
       /\ heap' = r.heap
       /\ call' = r.calls
  /\ \E sum \in BatchSums(Times(bo.repeat)) :
       bo' = [bo EXCEPT !.ran = TRUE, !.sum = sum]
  /\ cell' = IF Algos[ai] = "Insertion" /\ bo.ret = "run_bench"
             THEN [cell EXCEPT !.insCalls = @ + Times(bo.repeat) * Times(bo.number)]
             ELSE cell
  /\ Quiet
  /\ UNCHANGED <<cfg, pc, ns, ni, di, ai, times_ms, prev_t, data,
                 timing, seeds, exit, genLog, prevLog, runNo>>
  /\ UNCHANGED <<genVars, algo, spc, sarg, sin, loc, frames, sret, subs>>

\* len(runs)
RunsLen == Times(bo.repeat)

\* line 109: sum(runs) / len(runs) / number divides by zero
BenchOneRaise ==
  /\ pc = "bench_one"
  /\ bo.ran
  /\ RunsLen = 0 \/ bo.number = 0
  /\ Die
  /\ Quiet
  /\ UNCHANGED <<cfg, ns, ni, di, ai, times_ms, bo, prev_t, data, call, cell,
                 timing, seeds, genLog, prevLog, runNo>>
  /\ UNCHANGED <<genVars, sortVars>>

\* lines 109, 135-136: bench_one returns; times_ms[algo_name] = t
BenchOneReturn ==
  /\ pc = "bench_one"
  /\ bo.ret = "run_bench"
  /\ bo.ran
  /\ RunsLen # 0 /\ bo.number # 0
  /\ times_ms' = [times_ms EXCEPT ![Algos[ai]] = MeanTime(bo.sum, RunsLen, bo.number)]
  /\ ai' = ai + 1
  /\ bo' = NoBench
  /\ pc' = "algo"
  /\ Quiet
  /\ UNCHANGED <<cfg, ns, ni, di, prev_t, data, call, cell,
                 timing, seeds, exit, genLog, prevLog, runNo>>
  /\ UNCHANGED <<genVars, sortVars>>

\* lines 138-142: the row of the cell is printed; on to the next cell
CellRow ==
  /\ pc = "algo"
  /\ ai > Len(Algos)
  /\ Write(<<[line |-> "row", n |-> ns[ni], dataset |-> DATASETS[di],
              ins |-> CellText(times_ms["Insertion"]),
              mer |-> CellText(times_ms["Merge"]),
              tim |-> CellText(times_ms["Timsort(sorted)"])]>>)
  /\ IF di < Len(DATASETS) THEN di' = di + 1 /\ ni' = ni
                           ELSE di' = 1 /\ ni' = ni + 1
  /\ times_ms' = NoTimes
  /\ pc' = "cell"
  /\ UNCHANGED <<cfg, ns, ai, bo, prev_t, data, call, cell,
                 timing, seeds, exit, genLog, prevLog, runNo>>
  /\ UNCHANGED <<genVars, sortVars>>

\* lines 125, 194, 196: the sizes are exhausted and --no-scaling is set: return 0
BenchDoneExit ==
  /\ pc = "cell"
  /\ ni > Len(ns)
  /\ cfg.no_scaling
  /\ pc' = "exit" /\ exit' = 0
  /\ Quiet
  /\ UNCHANGED <<cfg, ns, ni, di, ai, times_ms, bo, prev_t, data, call, cell,
                 timing, seeds, genLog, prevLog, runNo>>
  /\ UNCHANGED <<genVars, sortVars>>

\* ------------------------------------------------------- analyze_scaling
\* lines 154-156: the sizes an algorithm is run on
ScalingSizes(name) ==
  IF name = "Insertion"
  THEN <<ScalingUnit, 2 * ScalingUnit, 4 * ScalingUnit, 8 * ScalingUnit>>
  ELSE <<2 * ScalingUnit, 4 * ScalingUnit, 8 * ScalingUnit, 16 * ScalingUnit>>

\* lines 125, 194-195, 150: the sizes are exhausted; analyze_scaling() prints
\* its heading
ScalingHeader ==
  /\ pc = "cell"
  /\ ni > Len(ns)
  /\ ~cfg.no_scaling
  /\ Write(<<[line |-> "Empirical scaling"]>>)
  /\ ai' = 1
  /\ pc' = "sc_algo"
  /\ UNCHANGED <<cfg, ns, ni, di, times_ms, bo, prev_t, data, call, cell,
                 timing, seeds, exit, genLog, prevLog, runNo>>
  /\ UNCHANGED <<genVars, sortVars>>

\* lines 151-158: the next algorithm: its ns, prev_t = None, its name printed
ScalingAlgo ==
  /\ pc = "sc_algo"
  /\ ai <= Len(Algos)
  /\ ns' = ScalingSizes(Algos[ai])
  /\ ni' = 1
  /\ prev_t' = None
  /\ Write(<<[line |-> "algo", name |-> Algos[ai]]>>)
  /\ pc' = "sc_size"
  /\ UNCHANGED <<cfg, di, ai, times_ms, bo, data, call, cell,
                 timing, seeds, exit, genLog, prevLog, runNo>>
  /\ UNCHANGED <<genVars, sortVars>>

\* lines 159-160: the next n; the call make_random(n)
ScalingGen ==
  /\ pc = "sc_size"
  /\ ni <= Len(ns)
  /\ gkind' = "random" /\ gn' = ns[ni] /\ gratio' = DefaultSwapsRatio
  /\ gpc' = "call" /\ ga' = <<>> /\ gswaps' = 0 /\ gdone' = 0
  /\ pc' = "sc_gen"
  /\ Quiet
  /\ UNCHANGED <<cfg, ns, ni, di, ai, times_ms, bo, prev_t, data, call, cell,
                 timing, seeds, exit, genLog, prevLog, runNo>>
  /\ UNCHANGED <<rng, sortVars>>

\* lines 160-161: data = the list returned; the call bench_one(algo, data, 3, 1)
ScalingData ==
  /\ pc = "sc_gen"
  /\ gpc = "returned"
  /\ gpc' = "idle"
  /\ heap' = <<Tagged(ga)>>
  /\ data' = Tagged(ga)
  /\ genLog' = Append(genLog, [n |-> gn, kind |-> gkind, data |-> ga])
  /\ bo' = [NoBench EXCEPT !.repeat = 3, !.number = 1, !.ret = "scaling"]
  /\ call' = NoCall
  /\ timing' = TRUE
  /\ pc' = "bench_one"
  /\ Quiet
  /\ UNCHANGED <<cfg, ns, ni, di, ai, times_ms, prev_t, cell,
                 seeds, exit, prevLog, runNo>>
  /\ UNCHANGED <<rng, gkind, gn, gratio, ga, gswaps, gdone>>
  /\ UNCHANGED <<algo, spc, sarg, sin, loc, frames, sret, subs>>

\* line 162: prev_t is true when it is neither None nor zero
Truthy(t) == t # None /\ t.sum # 0

\* lines 109, 161-166: bench_one returns t; the line of n is printed with the
\* ratio to prev_t when there is one; prev_t = t
ScalingLine ==
  /\ pc = "bench_one"
  /\ bo.ret = "scaling"
  /\ bo.ran
  /\ RunsLen # 0 /\ bo.number # 0
  /\ LET t == MeanTime(bo.sum, RunsLen, bo.number)
     IN  /\ Write(<<[line |-> "n", n |-> ns[ni], t |-> t,
                     ratio |-> IF Truthy(prev_t) THEN <<t, prev_t>> ELSE None]>>)
         /\ prev_t' = t
  /\ ni' = ni + 1
  /\ bo' = NoBench
  /\ pc' = "sc_size"
  /\ UNCHANGED <<cfg, ns, di, ai, times_ms, data, call, cell,
                 timing, seeds, exit, genLog, prevLog, runNo>>
  /\ UNCHANGED <<genVars, sortVars>>

\* line 159, 151: the sizes of this algorithm are exhausted
ScalingNextAlgo ==
  /\ pc = "sc_size"
  /\ ni > Len(ns)
  /\ ai' = ai + 1
  /\ pc' = "sc_algo"
  /\ Quiet
  /\ UNCHANGED <<cfg, ns, ni, di, times_ms, bo, prev_t, data, call, cell,
                 timing, seeds, exit, genLog, prevLog, runNo>>
  /\ UNCHANGED <<genVars, sortVars>>

\* lines 151, 196: the algorithms are exhausted; main returns 0
ScalingDone ==
  /\ pc = "sc_algo"
  /\ ai > Len(Algos)
  /\ pc' = "exit" /\ exit' = 0
  /\ Quiet
  /\ UNCHANGED <<cfg, ns, ni, di, ai, times_ms, bo, prev_t, data, call, cell,
                 timing, seeds, genLog, prevLog, runNo>>
  /\ UNCHANGED <<genVars, sortVars>>

\* ------------------------------------------------------------ the process
\* A process that has just started: nothing printed, the generator unseeded
ProcessStart ==
  /\ pc = "start" /\ ns = <<>> /\ ni = 0 /\ di = 0 /\ ai = 0
  /\ times_ms = NoTimes /\ bo = NoBench /\ prev_t = None
  /\ data = <<>> /\ call = NoCall /\ cell = NoCell
  /\ printed = <<>> /\ nprinted = 0 /\ timing = FALSE /\ seeds = 0
  /\ exit = "running" /\ genLog = <<>>
  /\ GenIdle
  /\ heap = <<>> /\ algo = "none" /\ spc = "idle" /\ sarg = 0 /\ sin = <<>>
  /\ loc = NoLoc /\ frames = <<>> /\ sret = 0 /\ subs = {}

\* The program is started a second time with the same command line
Restart ==
  /\ pc = "exit"
  /\ runNo = 1
  /\ runNo' = 2
  /\ prevLog' = genLog
  /\ cfg' = cfg
  /\ pc' = "start" /\ ns' = <<>> /\ ni' = 0 /\ di' = 0 /\ ai' = 0
  /\ times_ms' = NoTimes /\ bo' = NoBench /\ prev_t' = None
  /\ data' = <<>> /\ call' = NoCall /\ cell' = NoCell
  /\ printed' = <<>> /\ nprinted' = 0 /\ timing' = FALSE /\ seeds' = 0
  /\ exit' = "running" /\ genLog' = <<>>
  /\ rng' = Unseeded
  /\ gkind' = "none" /\ gn' = 0 /\ gratio' = DefaultSwapsRatio
  /\ gpc' = "idle" /\ ga' = <<>> /\ gswaps' = 0 /\ gdone' = 0
  /\ heap' = <<>> /\ algo' = "none" /\ spc' = "idle" /\ sarg' = 0 /\ sin' = <<>>
  /\ loc' = NoLoc /\ frames' = <<>> /\ sret' = 0 /\ subs' = {}

BenchStep ==
  \/ MainSeed
  \/ MainSizes
  \/ MainSizesRaise
  \/ BenchHeader
  \/ CellGen
  \/ GenRaised
  \/ CellData
  \/ AlgoSkip
  \/ AlgoBench
  \/ TimerRepeat
  \/ BenchOneRaise
  \/ BenchOneReturn
  \/ CellRow
  \/ BenchDoneExit
  \/ ScalingHeader
  \/ ScalingAlgo
  \/ ScalingGen
  \/ ScalingData
  \/ ScalingLine
  \/ ScalingNextAlgo
  \/ ScalingDone
  \/ Restart

\* ----------------------------------------------------------------- Init
InputLists == UNION {[1..n -> 0..MaxKey] : n \in 0..MaxLen}

BenchIdle ==
  /\ cfg = None /\ pc = "none" /\ ns = <<>> /\ ni = 0 /\ di = 0 /\ ai = 0
  /\ times_ms = NoTimes /\ bo = NoBench /\ prev_t = None
  /\ data = <<>> /\ call = NoCall /\ cell = NoCell
  /\ printed = <<>> /\ nprinted = 0 /\ timing = FALSE /\ seeds = 0
  /\ exit = "running" /\ genLog = <<>> /\ prevLog = <<>> /\ runNo = 0

\* Before a caller calls a sorting function
SortInit ==
  /\ GenIdle
  /\ BenchIdle
  /\ heap = <<>> /\ algo = "none" /\ spc = "idle" /\ sarg = 0 /\ sin = <<>>
  /\ loc = NoLoc /\ frames = <<>> /\ sret = 0 /\ subs = {}

\* A caller calls one of the sorting functions on a list of its own
SortCall ==
  /\ spc = "idle" /\ gpc = "idle" /\ pc = "none"
  /\ \E s \in InputLists :
       /\ heap' = <<Tagged(s)>>
       /\ sin' = Tagged(s)
  /\ algo' \in AlgoNames
  /\ sarg' = 1
  /\ spc' = "call"
  /\ UNCHANGED <<loc, frames, sret, subs, genVars, benchVars>>

SortStep ==
  \/ InsCopy
  \/ InsForNext
  \/ InsShift
  \/ InsPlace
  \/ InsReturn
  \/ MsCall
  \/ MsBase
  \/ MsSplitLeft
  \/ MsSplitRight
  \/ MergeStart
  \/ MergeLeft
  \/ MergeRight
  \/ MergeFinish
  \/ TimsortCall

SortNext ==
  \/ SortCall
  \/ SortStep

SortSpec == SortInit /\ [][SortNext]_vars

\* A call of one generator, unseeded, whose result is then sorted
Ratios == {[num |-> -1, den |-> 2], [num |-> 0, den |-> 1], DefaultSwapsRatio,
           [num |-> 1, den |-> 2], [num |-> 1, den |-> 1], [num |-> 3, den |-> 2]}

\* a size and a ratio whose float product, 28.999999999999996, is below the
\* exact one, 29
RoundingCase == [n |-> 100, ratio |-> [num |-> 29, den |-> 100]]

GenInit ==
  /\ BenchIdle
  /\ rng = Unseeded
  /\ gkind \in {DATASETS[k] : k \in 1..Len(DATASETS)}
  /\ \/ /\ gn \in 0..MaxN
        /\ gratio \in IF gkind = "nearly_sorted" THEN Ratios ELSE {DefaultSwapsRatio}
     \/ /\ gkind = "nearly_sorted"
        /\ gn = RoundingCase.n
        /\ gratio = RoundingCase.ratio
  /\ gpc = "call" /\ ga = <<>> /\ gswaps = 0 /\ gdone = 0
  /\ heap = <<>> /\ algo = "none" /\ spc = "idle" /\ sarg = 0 /\ sin = <<>>
  /\ loc = NoLoc /\ frames = <<>> /\ sret = 0 /\ subs = {}

\* the caller hands the list the generator returned to a sorting function
SortGenerated ==
  /\ gpc = "returned" /\ spc = "idle"
  /\ algo' \in AlgoNames
  /\ heap' = <<Tagged(ga)>>
  /\ sin' = Tagged(ga)
  /\ sarg' = 1
  /\ spc' = "call"
  /\ UNCHANGED <<loc, frames, sret, subs, genVars, benchVars>>

GenNext ==
  \/ GenStep
  \/ SortGenerated
  \/ SortStep

GenSpec == GenInit /\ [][GenNext]_vars

\* The program run from the command line, twice with the same arguments
SizeTokens ==
  {<<>>,                       \* an empty entry, as in "1,,2"
   <<120>>,                    \* "x"
   <<45, 49>>,                 \* "-1"
   <<48>>,                     \* "0"
   <<49>>,                     \* "1"
   <<11, 48, 95, 1634, 160>>,  \* \v 0 _ U+0662 U+00A0: the size 2
   [k \in 1..(MaxStrDigits + 1) |-> 48]}  \* one zero more than int() reads

\* --sizes: a list of one entry is any of the tokens; a longer list mixes the
\* sizes 1 and 2 and the empty entry
SizeLists ==
  LET several == {<<>>, <<49>>, <<11, 48, 95, 1634, 160>>}
  IN  {<<t>> : t \in SizeTokens} \cup UNION {[1..n -> several] : n \in 2..MaxSizes}

RepeatValues == {0, 1, 2}
NumberValues == {-1, 0, 1, 2}
InsMaxValues == {0, 1, 2}

Configs == [sizes : SizeLists, repeat : RepeatValues, number : NumberValues,
            ins_max : InsMaxValues, no_scaling : BOOLEAN]

BenchInit ==
  /\ cfg \in Configs
  /\ runNo = 1
  /\ prevLog = <<>>
  /\ ProcessStart

BenchNext ==
  \/ BenchStep
  \/ GenStep

BenchSpec == BenchInit /\ [][BenchNext]_vars

\* The interpreter runs the call to its end: a step that can be taken is taken
SortFair == SortInit /\ [][SortNext]_vars /\ WF_vars(SortNext)

\* ------------------------------------------------------------ properties
Result == heap[sret]

NonDecreasing(s) == \A k \in 1..(Len(s) - 1) : Key(s[k]) <= Key(s[k + 1])

Range(s) == {s[k] : k \in 1..Len(s)}

\* s and t hold the same elements the same number of times (elements carry
\* distinct tags, so a list of them has no repetition)
IsPermutation(s, t) == Len(s) = Len(t) /\ Range(s) = Range(t)

Stable(s) ==
  \A k \in 1..Len(s) : \A m \in 1..Len(s) :
    (k < m /\ Key(s[k]) = Key(s[m])) => Tag(s[k]) < Tag(s[m])

\* the functions of the "as functions" section compute what the step-by-step
\* calls return
MachineMatchesFunctions ==
  spc = "done" =>
    Result = CASE algo = "Insertion" -> insertion_sort(sin)
               [] algo = "Merge" -> merge_sort(sin)
               [] OTHER -> timsort_sorted(sin)

\* C1: a finished insertion_sort or merge_sort call returned a permutation of
\* its argument that is non-decreasing, for every input, the empty, the
\* one-element and the all-equal lists included
C1_SortedPermutation ==
  (spc = "done" /\ algo \in {"Insertion", "Merge"}) =>
    (IsPermutation(Result, sin) /\ NonDecreasing(Result))

C1_Witness ==
  /\ spc = "done" /\ algo = "Merge"
  /\ Keys(sin) = <<2, 0, 1, 0>>
  /\ Keys(Result) = <<0, 0, 1, 2>>

\* the result of a finished insertion_sort or merge_sort call keeps elements
\* of equal key in the order of their tags, that is of the input
StableResult ==
  (spc = "done" /\ algo \in {"Insertion", "Merge"}) => Stable(Result)

\* a step of _merge's loop taken when left[i] and right[j] have equal keys
\* appends left[i] and advances i
TieTakesLeft ==
  (/\ spc = "ms" /\ Top.pc = "merge"
   /\ MergeWhileCond(heap[Top.left], heap[Top.right], Top.i, Top.j)
   /\ Key(ListGet(heap[Top.left], Top.i)) = Key(ListGet(heap[Top.right], Top.j)))
  => (/\ heap'[Top.out] = Append(heap[Top.out], ListGet(heap[Top.left], Top.i))
      /\ frames'[Len(frames)].i = Top.i + 1
      /\ frames'[Len(frames)].j = Top.j)

\* C2: insertion_sort and merge_sort are stable (elements of equal key leave
\* in the order they came in), and _merge emits the left element on a tie
C2_Stable == []StableResult /\ [][TieTakesLeft]_vars

C2_Witness ==
  /\ spc = "done" /\ algo = "Merge"
  /\ sin = <<<<1, 0>>, <<0, 1>>, <<1, 2>>, <<0, 3>>>>
  /\ Result = <<<<0, 1>>, <<0, 3>>, <<1, 0>>, <<1, 2>>>>

\* C3: during and after a call of any of the three functions the caller's
\* list holds what it held at the call, and the list returned is another
\* object than the caller's, the base case of merge_sort included
C3_ArgumentUntouched ==
  spc \in {"ins_for", "ins_while", "ms", "done"} =>
    /\ heap[sarg] = sin
    /\ spc = "done" => (sret # sarg /\ sret \in 1..Len(heap))

C3_Witness ==
  /\ spc = "done" /\ algo = "Merge"
  /\ Len(sin) = 1
  /\ sret # sarg /\ heap[sret] = heap[sarg]

\* every subscript the last step evaluated lies in 0..len-1
SubsInBounds == \A x \in subs : x[1] >= 0 /\ x[1] < x[2]

\* every call of merge_sort under way that has passed the test of line 29 has
\* a list of at least two elements, and the call it made is on a strictly
\* shorter list
HalvesShorter ==
  \A k \in 1..Len(frames) :
    /\ frames[k].pc # "enter" => Len(heap[frames[k].arr]) >= 2
    /\ k > 1 => Len(heap[frames[k].arr]) < Len(heap[frames[k - 1].arr])

\* C10: a call of insertion_sort or merge_sort ends, and until then no
\* subscript leaves 0..len-1 (so none raises IndexError or wraps around) and
\* merge_sort recurses only on strictly shorter lists, returning directly for
\* a length of at most 1
C10_Terminates ==
  /\ [](SubsInBounds /\ HalvesShorter)
  /\ (spc = "call" /\ algo \in {"Insertion", "Merge"}) ~> (spc = "done")

C10_Witness ==
  /\ spc = "done" /\ algo = "Insertion"
  /\ Len(sin) >= 3
  /\ loc.j = -1

\* --------------------------------------------------- generator properties
\* C6: no generator raises for n >= 0 and each returns a list of length n
C6_GeneratorsTotal ==
  /\ gpc # "raised"
  /\ gpc = "returned" => Len(ga) = gn

\* max(1, int(n * ratio)) for the call under way, stated apart from line 75:
\* the float product is at most one unit in the last place away from the
\* exact n * num / den, so its integer part is the exact one unless the exact
\* product is an integer and the float one fell below it
ExpectedSwaps ==
  LET exact == (gn * gratio.num) \div gratio.den
      whole == (gn * gratio.num) % gratio.den = 0
      below == whole /\ <<gn, gratio>> = <<RoundingCase.n, RoundingCase.ratio>>
      k == IF below THEN exact - 1 ELSE exact
  IN  IF k > 1 THEN k ELSE 1

\* C9: for n >= 1 and every ratio and every draw, make_nearly_sorted runs
\* max(1, int(n * ratio)) swaps and returns a permutation of 0..n-1, and each
\* of the three sorting functions turns that list into make_sorted(n)
C9_NearlySorted ==
  (gkind = "nearly_sorted" /\ gn >= 1) =>
    /\ gpc # "raised"
    /\ gpc = "returned" =>
         /\ gdone = ExpectedSwaps
         /\ Len(ga) = gn
         /\ {ga[k] : k \in 1..Len(ga)} = 0..(gn - 1)
    /\ spc = "done" => Keys(Result) = [k \in 1..gn |-> k - 1]

C9_Witness ==
  /\ gkind = "nearly_sorted" /\ gn = 3 /\ gdone >= 2
  /\ ga = <<2, 0, 1>>
  /\ spc = "done" /\ algo = "Merge"
  /\ Keys(Result) = <<0, 1, 2>>

\* --------------------------------------------------- benchmark properties
RowPrinted == Len(printed) = 1 /\ printed[1].line = "row"

\* C4: insertion sort is timed exactly in the cells with n <= --ins-max: its
\* bench_one call is made if and only if n <= ins_max, it is never invoked
\* above the ceiling, and the row's Insertion cell is the marker above the
\* ceiling and a formatted number at or below it
C4_InsertionCeiling ==
  /\ (pc = "bench_one" /\ bo.ret = "run_bench" /\ Algos[ai] = "Insertion")
       => ns[ni] <= cfg.ins_max
  /\ RowPrinted =>
       LET r == printed[1]
       IN  /\ r.n > cfg.ins_max => (r.ins = NotMeasured /\ cell.insBench = 0
                                    /\ cell.insCalls = 0)
           /\ r.n <= cfg.ins_max => (r.ins # NotMeasured /\ r.ins.text = "number"
                                     /\ cell.insBench = 1)

C4_Witness ==
  /\ RowPrinted
  /\ ns = <<1, 2>>
  /\ printed[1].n = 2 /\ cfg.ins_max = 1
  /\ printed[1].ins = NotMeasured
  /\ printed[1].mer # NotMeasured

\* the configurations the specification calls invalid
InvalidConfiguration ==
  \/ KeptTokens(cfg.sizes) = <<>>
  \/ \E k \in 1..Len(cfg.sizes) :
       /\ Strip(cfg.sizes[k]) # <<>>
       /\ ~IntOf(cfg.sizes[k]).ok \/ IntOf(cfg.sizes[k]).val < 0
  \/ cfg.repeat <= 0
  \/ cfg.number <= 0

\* C5: with an invalid configuration no timing begins, nothing of the report
\* is printed, and the process ends with a non-zero status
C5_InvalidConfigurationRejected ==
  (runNo = 1 /\ InvalidConfiguration) =>
    /\ ~timing
    /\ nprinted = 0
    /\ pc = "exit" => exit # 0

\* C7: in a cell of run_bench one dataset is generated, every call of the
\* thunk hands the algorithm a new list that is not data and holds what data
\* held when it was generated, and data holds that at the start of every call
C7_FreshCopyPerCall ==
  /\ (pc \in {"gen", "algo"} \/ (pc = "bench_one" /\ bo.ret = "run_bench"))
       => (cell.at = <<ni, di>> /\ cell.gens = 1)
  /\ (pc = "algo" \/ (pc = "bench_one" /\ bo.ret = "run_bench"))
       => heap[1] = data
  /\ \A c \in call :
       c.by = "run_bench" => (c.arg # 1 /\ c.argv = data /\ c.before = data)

C7_Witness ==
  /\ pc = "bench_one" /\ bo.ret = "run_bench" /\ bo.ran
  /\ cfg.repeat = 2 /\ cfg.number = 2
  /\ Algos[ai] = "Timsort(sorted)"
  /\ Keys(data) = <<2, 1>>
  /\ \E c \in call : c.arg = 2 /\ Keys(c.argv) = <<2, 1>> /\ Keys(c.res) = <<1, 2>>

IsPrefix(s, t) == Len(s) <= Len(t) /\ s = SubSeq(t, 1, Len(s))

\* C8: a process seeds the generator once, before any generator call, and
\* never again; a second process with the same arguments generates the same
\* datasets in the same order, in run_bench and in analyze_scaling, whatever
\* the timings of the two were
C8_SeededOnceReproducible ==
  /\ seeds <= 1
  /\ (gpc # "idle" \/ genLog # <<>>) => (seeds = 1 /\ rng # Unseeded)
  /\ runNo = 2 => IsPrefix(genLog, prevLog)
  /\ (runNo = 2 /\ pc = "exit") => genLog = prevLog

C8_Witness ==
  /\ runNo = 2 /\ pc = "exit" /\ exit = 0
  /\ ~cfg.no_scaling
  /\ Len(genLog) = Len(DATASETS) + 3 * 4
  /\ genLog = prevLog
  /\ genLog[1].data = <<686579303, 119540831>>
  /\ genLog[4].data = <<1, 0>>
  /\ genLog[5].data = <<31, 28>>
====
